---- MODULE Spec2Model ----
(***************************************************************************)
(* Model of src/main.rs: the work-hour report of one invocation.           *)
(*                                                                         *)
(* Instants (DateTime<Local>) are milliseconds since local midnight of the *)
(* current day; durations (chrono::Duration) are signed milliseconds.      *)
(* All command-line values are whole seconds and the only division is the  *)
(* weekly goal / 5, so a millisecond grid holds every value exactly.       *)
(* The local UTC offset is taken as constant over the day.                 *)
(*                                                                         *)
(* A command-line string is modelled after splitting: a time or duration   *)
(* string is the sequence of its ":"-separated parts, a break string the   *)
(* sequence of its "-"-separated time strings.  A part is N(n), the        *)
(* decimal numeral of the integer n, or X, a part that is not a numeral.   *)
(***************************************************************************)
EXTENDS Integers, Sequences, FiniteSets, TLC

VARIABLES
    pc,                  \* position in main()
    start_s, end_s, daily_s, weekly_s, breaks_in,   \* clap matches
    now,                 \* Local::now() read at main.rs:173
    given_start, start, end,
    workday,
    total_time, break_time, longest_break_time,
    idx,                 \* position of the for loop over breaks_s
    work_time, done, remainder, text_rem, max_dur,
    log                  \* lines written through info!/error!

vars == <<pc, start_s, end_s, daily_s, weekly_s, breaks_in, now, given_start,
          start, end, workday, total_time, break_time, longest_break_time,
          idx, work_time, done, remainder, text_rem, max_dur, log>>

args == <<start_s, end_s, daily_s, weekly_s, breaks_in, now>>

----------------------------------------------------------------------------
(* Bounds of the explored inputs *)

MaxBreaks == 2

----------------------------------------------------------------------------
(* chrono::Duration constructors and accessors *)

try_seconds(n) == n * 1000
try_minutes(n) == n * 60 * 1000
try_hours(n) == n * 3600 * 1000

\* Rust integer division: truncation toward zero
TruncDiv(a, b) == IF a >= 0 THEN a \div b ELSE -((-a) \div b)

num_seconds(d) == TruncDiv(d, 1000)
num_minutes(d) == TruncDiv(num_seconds(d), 60)
num_hours(d) == TruncDiv(num_seconds(d), 3600)

abs(n) == IF n < 0 THEN -n ELSE n
max(a, b) == IF b >= a THEN b ELSE a

----------------------------------------------------------------------------
(* Command-line strings *)

N(n) == [int |-> TRUE, v |-> n]
X == [int |-> FALSE, v |-> 0]
NoArg == <<>>           \* Option::None of get_one / get_many

\* str::parse::<u32>: a numeral without sign in range
parse_u32_ok(p) == p.int /\ p.v >= 0
\* str::parse::<i64>: any numeral
parse_i64_ok(p) == p.int

\* extract: every part must parse, else unwrap panics
extract_ok(input) == \A k \in 1..Len(input) : parse_u32_ok(input[k])
extract(input) == [k \in 1..Len(input) |-> input[k].v]

\* variant: a constructor that does not check the ranges
and_hms_unchecked(h, m, s) == TRUE

\* NaiveDate::and_hms_opt: Some exactly for a valid time of day
and_hms_ok(h, m, s) == h < 24 /\ m < 60 /\ s < 60
and_hms(h, m, s) == try_hours(h) + try_minutes(m) + try_seconds(s)

\* create_time returns (no panic)
create_time_ok(input) ==
    /\ extract_ok(input)
    /\ LET hm == extract(input) IN
         \/ Len(hm) = 2 /\ and_hms_ok(hm[1], hm[2], 0)
         \/ Len(hm) = 3 /\ and_hms_ok(hm[1], hm[2], hm[3])

create_time(input) ==
    LET hm == extract(input) IN
    IF Len(hm) = 2 THEN and_hms(hm[1], hm[2], 0)
                   ELSE and_hms(hm[1], hm[2], hm[3])

\* create_time reaches its error! line (part count other than 2 or 3)
create_time_error(input) == extract_ok(input) /\ Len(input) \notin {2, 3}

create_duration_ok(input) ==
    /\ \A k \in 1..Len(input) : parse_i64_ok(input[k])
    /\ Len(input) \in {2, 3}

create_duration(input) ==
    IF Len(input) = 2
    THEN try_hours(input[1].v) + try_minutes(input[2].v)
    ELSE try_hours(input[1].v) + try_minutes(input[2].v) + try_seconds(input[3].v)

create_duration_error(input) ==
    (\A k \in 1..Len(input) : parse_i64_ok(input[k])) /\ Len(input) \notin {2, 3}

\* calculate_duration_from_string_ts returns (no panic): times_str[1] exists
\* and both sides are times
calculate_duration_ok(input) ==
    /\ Len(input) >= 2
    /\ create_time_ok(input[1])
    /\ create_time_ok(input[2])

\* variant: end - start whatever the order
calculate_duration_signed(input) ==
    create_time(input[2]) - create_time(input[1])

calculate_duration_from_string_ts(input) ==
    LET start_t == create_time(input[1])
        end_t == create_time(input[2])
    IN IF end_t < start_t THEN start_t - end_t ELSE end_t - start_t

\* the error! line written before a panic inside the break's two create_time calls
calculate_duration_error(input) ==
    \/ create_time_error(input[1])
    \/ create_time_ok(input[1]) /\ Len(input) >= 2 /\ create_time_error(input[2])

----------------------------------------------------------------------------
(* Formatting *)

Pad2(n) == IF n < 10 THEN "0" \o ToString(n) ELSE ToString(n)
Pad3(n) == IF n < 10 THEN "00" \o ToString(n)
           ELSE IF n < 100 THEN "0" \o ToString(n) ELSE ToString(n)

\* the three numbers format_duration prints
format_hours_field(input) == abs(num_hours(input))
\* variant: the hours are not taken off before the minutes are counted
format_minutes_field_whole(input) == abs(num_minutes(input))

format_minutes_field(input) ==
    abs(num_minutes(input - try_hours(num_hours(input))))
format_seconds_field(input) ==
    abs(num_seconds(input - try_minutes(num_minutes(input))))

format_duration(input) ==
    Pad2(format_hours_field(input)) \o ":" \o
    Pad2(format_minutes_field(input)) \o ":" \o
    Pad2(format_seconds_field(input))

\* format_duration_hours: round(hours + minutes / 60, 2), in hundredths of an
\* hour.  minutes * 100 / 60 is never half-way, so round is floor(x + 1/2).
format_duration_hours(input) ==
    format_hours_field(input) * 100
        + (10 * format_minutes_field(input) + 3) \div 6

\* round(100 * work_time / workday, 2) in hundredths of a percent, for
\* workday > 0; f64::round rounds half away from zero.  Both durations lie on
\* the 200 ms grid.
percent(work, goal) ==
    LET a == abs(work) \div 200
        w == goal \div 200
        x == (a % w) * 10000
        r == (a \div w) * 10000 + (x \div w) + (IF 2 * (x % w) >= w THEN 1 ELSE 0)
    IN IF work < 0 THEN -r ELSE r

\* DateTime::time() and its Display: time of day, fraction printed when present
time(t) ==
    LET tod == t % try_hours(24)
        hms == Pad2(tod \div try_hours(1)) \o ":" \o
               Pad2((tod % try_hours(1)) \div try_minutes(1)) \o ":" \o
               Pad2((tod % try_minutes(1)) \div 1000)
    IN IF tod % 1000 = 0 THEN hms ELSE hms \o "." \o Pad3(tod % 1000)

----------------------------------------------------------------------------
(* Values fixed in main() *)

break_short == try_minutes(30)
break_large == try_minutes(45)
min_start == create_time(<<N(6), N(0)>>)
\* DateTime::<Local>::default() is the Unix epoch: an instant before the
\* current day, which no create_time result equals
DateTimeDefault == 0 - try_hours(24)

\* variant: the projections add the fixed large break
clock_out_large(start_t, hours, break_t) ==
    start_t + try_hours(hours) + break_large

\* start + threshold + max(break_large, break_time), main.rs:253,268,269
clock_out(start_t, hours, break_t) ==
    start_t + try_hours(hours) + max(break_large, break_t)

----------------------------------------------------------------------------
(* Explored command lines *)

StartArgs == { <<N(8), N(0)>>, <<N(5), N(0)>>, <<N(6), N(0)>>,
               <<N(20), N(30), N(15)>>,
               <<N(8), N(30), N(15), N(0)>>, <<N(25), N(0)>> }

EndArgs == { NoArg, <<N(17), N(30)>>, <<N(16), N(18)>>, <<N(5), N(30)>>,
             <<X, N(0)>>, <<N(17), N(60)>> }

DailyArgs == { NoArg, <<N(8), N(0)>>, <<N(7), N(75)>>, <<N(8)>> }

\* <<N(39), N(0)>> is the default_value of "weekly-goal", main.rs:161
WeeklyArgs == { <<N(39), N(0)>>, <<N(39), N(0), N(1)>>, <<N(39), X>> }

BreakArgs == { << <<N(9), N(0)>>, <<N(9), N(30)>> >>,
               << <<N(9), N(30)>>, <<N(9), N(0)>> >>,
               << <<N(12), N(0)>>, <<N(13), N(0)>> >>,
               << <<N(9), N(0)>>, <<N(9), N(0)>> >>,
               << <<N(9), N(0)>> >>,
               << <<N(9), N(0)>>, <<N(9), N(61)>> >> }

NowValues == { and_hms(16, 0, 0), and_hms(7, 12, 30) }

BreakLists == UNION { [1..n -> BreakArgs] : n \in 0..MaxBreaks }

----------------------------------------------------------------------------
(* main() *)

Init ==
    /\ pc = "start"
    /\ start_s \in StartArgs
    /\ end_s \in EndArgs
    /\ daily_s \in DailyArgs
    /\ weekly_s \in WeeklyArgs
    /\ breaks_in \in BreakLists
    /\ now \in NowValues
    /\ given_start = DateTimeDefault
    /\ start = DateTimeDefault
    /\ end = DateTimeDefault
    /\ workday = 0
    /\ total_time = 0
    /\ break_time = 0
    /\ longest_break_time = 0
    /\ idx = 1
    /\ work_time = 0
    /\ done = FALSE
    /\ remainder = 0
    /\ text_rem = ""
    /\ max_dur = 0
    /\ log = <<>>

Info(text) == [kind |-> "info", text |-> text]
Error(text) == [kind |-> "error", text |-> text]

\* the panic of a failed parse: the error! line if that is reached, then abort
Abort(diag, text) ==
    /\ pc' = "aborted"
    /\ log' = IF diag THEN Append(log, Error(text)) ELSE log

\* variant: no floor
effective_start_given(given) == given

\* main.rs:183-192: the start used from here on
effective_start(given) == IF given < min_start THEN min_start ELSE given

\* main.rs:178-195.  The else branch (no start time) is dead: clap rejects a
\* command line without the required -s before main's code runs.
ResolveStart ==
    /\ pc = "start"
    /\ IF create_time_ok(start_s)
       THEN /\ given_start' = create_time(start_s)
            /\ start' = effective_start(given_start')
            /\ log' = IF given_start' < min_start
                      THEN Append(log, Info("Provided start time too small"))
                      ELSE log
            /\ pc' = "end"
       ELSE /\ Abort(create_time_error(start_s), "Cannot extract time")
            /\ UNCHANGED <<given_start, start>>
    /\ UNCHANGED <<args, end, workday, total_time, break_time,
                   longest_break_time, idx, work_time, done, remainder,
                   text_rem, max_dur>>

\* main.rs:197-200
ResolveEnd ==
    /\ pc = "end"
    /\ IF end_s = NoArg
       THEN /\ end' = DateTimeDefault
            /\ pc' = "goal"
            /\ log' = log
       ELSE IF create_time_ok(end_s)
       THEN /\ end' = create_time(end_s)
            /\ pc' = "goal"
            /\ log' = log
       ELSE /\ Abort(create_time_error(end_s), "Cannot extract time")
            /\ UNCHANGED end
    /\ UNCHANGED <<args, given_start, start, workday, total_time, break_time,
                   longest_break_time, idx, work_time, done, remainder,
                   text_rem, max_dur>>

\* the goal string main.rs:204-207 parses
goal_string == IF daily_s # NoArg THEN daily_s ELSE weekly_s

\* variant: the weekly goal, which always has a value, is looked at first
resolve_workday_weekly == create_duration(weekly_s) \div 5

\* main.rs:204-207: the daily goal
resolve_workday ==
    IF daily_s # NoArg THEN create_duration(daily_s)
                       ELSE create_duration(weekly_s) \div 5

\* main.rs:202-210.  The final else (no goal) is dead: "weekly-goal" has a
\* default value.
ResolveGoal ==
    /\ pc = "goal"
    /\ IF create_duration_ok(goal_string)
       THEN /\ workday' = resolve_workday
            /\ pc' = "breaks_in"
            /\ log' = log
       ELSE /\ Abort(create_duration_error(goal_string), "Cannot extract duration")
            /\ UNCHANGED workday
    /\ UNCHANGED <<args, given_start, start, end, total_time, break_time,
                   longest_break_time, idx, work_time, done, remainder,
                   text_rem, max_dur>>

\* main.rs:212-218: breaks_s is breaks_in, or empty with a notice
CollectBreaks ==
    /\ pc = "breaks_in"
    /\ log' = IF breaks_in = NoArg
              THEN Append(log, Info("No breaks defined, using default."))
              ELSE log
    /\ pc' = "total"
    /\ UNCHANGED <<args, given_start, start, end, workday, total_time,
                   break_time, longest_break_time, idx, work_time, done,
                   remainder, text_rem, max_dur>>

\* main.rs:220-227
TotalTime ==
    /\ pc = "total"
    /\ total_time' = IF end # DateTimeDefault THEN end - start ELSE now - start
    /\ break_time' = try_seconds(0)
    /\ longest_break_time' = try_seconds(0)
    /\ pc' = "breaks"
    /\ UNCHANGED <<args, given_start, start, end, workday, idx, work_time,
                   done, remainder, text_rem, max_dur, log>>

\* variant: the large break only above the threshold
default_break_above(total) ==
    IF total > try_hours(9) + break_short THEN break_large ELSE break_short

\* main.rs:228-233
default_break(total) ==
    IF total >= try_hours(9) + break_short THEN break_large ELSE break_short

DefaultBreak ==
    /\ pc = "breaks"
    /\ breaks_in = <<>>
    /\ break_time' = default_break(total_time)
    /\ pc' = "compute"
    /\ UNCHANGED <<args, given_start, start, end, workday, total_time,
                   longest_break_time, idx, work_time, done, remainder,
                   text_rem, max_dur, log>>

\* variant: the comparison with the longest break so far is lost
longest_update_last(break_duration, longest) == break_duration

\* main.rs:238-240
longest_update(break_duration, longest) ==
    IF break_duration > longest THEN break_duration ELSE longest

\* main.rs:236-242: one iteration of the loop over breaks_s
NextBreak ==
    /\ pc = "breaks"
    /\ breaks_in # <<>>
    /\ idx <= Len(breaks_in)
    /\ LET break_ == breaks_in[idx] IN
       IF calculate_duration_ok(break_)
       THEN LET break_duration == calculate_duration_from_string_ts(break_) IN
            /\ longest_break_time' =
                   longest_update(break_duration, longest_break_time)
            /\ break_time' = break_time + break_duration
            /\ idx' = idx + 1
            /\ pc' = IF idx = Len(breaks_in) THEN "compute" ELSE "breaks"
            /\ log' = log
       ELSE /\ Abort(calculate_duration_error(break_), "Cannot extract time")
            /\ UNCHANGED <<break_time, longest_break_time, idx>>
    /\ UNCHANGED <<args, given_start, start, end, workday, total_time,
                   work_time, done, remainder, text_rem, max_dur>>

\* variant: the goal counts as exceeded once it is met
is_done_met(work, goal) == work >= goal

\* main.rs:246
is_done(work, goal) == work > goal

\* main.rs:247-251
remainder_of(done_flag, goal, break_t, total) ==
    IF done_flag THEN goal + break_t - total ELSE total - (goal + break_t)

\* main.rs:245-253
Compute ==
    /\ pc = "compute"
    /\ work_time' = total_time - break_time
    /\ done' = is_done(work_time', workday)
    /\ remainder' = remainder_of(done', workday, break_time, total_time)
    /\ text_rem' = IF done' THEN "more" ELSE "remaining"
    /\ max_dur' = clock_out(start, 10, break_time) - now
    /\ pc' = "report1"
    /\ UNCHANGED <<args, given_start, start, end, workday, total_time,
                   break_time, longest_break_time, idx, log>>

\* main.rs:255-260
end_time_str ==
    IF end # DateTimeDefault THEN "end: " \o time(end) \o "; " ELSE ""

\* main.rs:262-270
Report1 ==
    /\ pc = "report1"
    /\ log' = Append(log,
           [kind |-> "report", line |-> 1,
            start |-> time(start),
            end |-> end_time_str,
            goal_hours |-> format_duration_hours(workday),
            at_goal |-> time(start + workday + break_time),
            at_9h |-> time(clock_out(start, 9, break_time)),
            at_10h |-> time(clock_out(start, 10, break_time))])
    /\ pc' = "report2"
    /\ UNCHANGED <<args, given_start, start, end, workday, total_time,
                   break_time, longest_break_time, idx, work_time, done,
                   remainder, text_rem, max_dur>>

\* main.rs:271-285
Report2 ==
    /\ pc = "report2"
    /\ log' = Append(log,
           [kind |-> "report", line |-> 2,
            already_done |-> format_duration(work_time),
            already_done_hours |-> format_duration_hours(work_time),
            percent |-> percent(work_time, workday),
            remainder |-> format_duration(remainder),
            remainder_hours |-> format_duration_hours(remainder),
            text_rem |-> text_rem,
            no_longer_than |-> format_duration(max_dur),
            no_longer_than_hours |-> format_duration_hours(max_dur)])
    /\ pc' = "report3"
    /\ UNCHANGED <<args, given_start, start, end, workday, total_time,
                   break_time, longest_break_time, idx, work_time, done,
                   remainder, text_rem, max_dur>>

\* main.rs:286-294
Report3 ==
    /\ pc = "report3"
    /\ log' = Append(log,
           [kind |-> "report", line |-> 3,
            total_break |-> format_duration(break_time),
            longest_break |-> IF longest_break_time = try_seconds(0)
                              THEN format_duration(break_time)
                              ELSE format_duration(longest_break_time)])
    /\ pc' = "report4"
    /\ UNCHANGED <<args, given_start, start, end, workday, total_time,
                   break_time, longest_break_time, idx, work_time, done,
                   remainder, text_rem, max_dur>>

\* main.rs:295-301
Report4 ==
    /\ pc = "report4"
    /\ log' = IF end # DateTimeDefault
              THEN Append(log,
                     [kind |-> "report", line |-> 4,
                      total_hours |-> format_duration_hours(total_time - break_time)])
              ELSE log
    /\ pc' = "exit"
    /\ UNCHANGED <<args, given_start, start, end, workday, total_time,
                   break_time, longest_break_time, idx, work_time, done,
                   remainder, text_rem, max_dur>>

Next ==
    \/ ResolveStart
    \/ ResolveEnd
    \/ ResolveGoal
    \/ CollectBreaks
    \/ TotalTime
    \/ DefaultBreak
    \/ NextBreak
    \/ Compute
    \/ Report1
    \/ Report2
    \/ Report3
    \/ Report4

Spec == Init /\ [][Next]_vars

----------------------------------------------------------------------------
(* Reading of the command line used to state the properties: what a        *)
(* well-formed argument is and what it denotes, independent of the parser  *)

Numeral(p) == p.int
Clock(h, m, sec) == ((h * 60 + m) * 60 + sec) * 1000

TimeWellFormed(s) ==
    /\ Len(s) \in {2, 3}
    /\ \A k \in 1..Len(s) : Numeral(s[k]) /\ s[k].v >= 0
    /\ s[1].v <= 23
    /\ s[2].v <= 59
    /\ Len(s) = 3 => s[3].v <= 59

TimeOf(s) == Clock(s[1].v, s[2].v, IF Len(s) = 3 THEN s[3].v ELSE 0)

DurationWellFormed(s) ==
    /\ Len(s) \in {2, 3}
    /\ \A k \in 1..Len(s) : Numeral(s[k])

DurationOf(s) == Clock(s[1].v, s[2].v, IF Len(s) = 3 THEN s[3].v ELSE 0)

BreakWellFormed(b) ==
    /\ Len(b) >= 2
    /\ TimeWellFormed(b[1])
    /\ TimeWellFormed(b[2])

Magnitude(n) == IF n >= 0 THEN n ELSE 0 - n
Larger(a, b) == IF a > b THEN a ELSE b

BreakOf(b) == Magnitude(TimeOf(b[2]) - TimeOf(b[1]))

RECURSIVE SumOfBreaks(_)
SumOfBreaks(bs) ==
    IF bs = <<>> THEN 0 ELSE BreakOf(Head(bs)) + SumOfBreaks(Tail(bs))

LongestOfBreaks(bs) ==
    CHOOSE d \in {BreakOf(bs[k]) : k \in 1..Len(bs)} :
        \A k \in 1..Len(bs) : BreakOf(bs[k]) <= d

SixOClock == Clock(6, 0, 0)
EffectiveStart == Larger(TimeOf(start_s), SixOClock)
EndOrNow == IF end_s # NoArg THEN TimeOf(end_s) ELSE now
UsedGoalString == IF daily_s # NoArg THEN daily_s ELSE weekly_s

AllInputsWellFormed ==
    /\ TimeWellFormed(start_s)
    /\ end_s # NoArg => TimeWellFormed(end_s)
    /\ DurationWellFormed(UsedGoalString)
    /\ \A k \in 1..Len(breaks_in) : BreakWellFormed(breaks_in[k])

\* Positions of main()
PastStart == {"end", "goal", "breaks_in", "total", "breaks", "compute",
              "report1", "report2", "report3", "report4", "exit"}
PastGoal == PastStart \ {"end", "goal"}
PastTotal == PastGoal \ {"breaks_in", "total"}
PastBreaks == PastTotal \ {"breaks"}
Computed == PastBreaks \ {"compute"}

ReportLines == {k \in 1..Len(log) : log[k].kind = "report"}
ReportLine(n) == {log[k] : k \in {j \in ReportLines : log[j].line = n}}
Notices(text) == {k \in 1..Len(log) : log[k].kind = "info" /\ log[k].text = text}

----------------------------------------------------------------------------
(* C1 *)

\* C1: once the report values are computed, the remainder is a non-negative
\* duration, and the label is "more" exactly when the done-flag is set and
\* "remaining" otherwise.
C1_RemainderNonNegative ==
    pc \in Computed =>
        /\ remainder = remainder_of(done, workday, break_time, total_time)
        /\ remainder >= 0
        /\ text_rem = (IF done THEN "more" ELSE "remaining")

----------------------------------------------------------------------------
(* C2 *)

\* C2 as stated: the done-flag is true exactly when work time (total elapsed
\* minus total break) has met or exceeded the daily goal, so it is true when
\* work time equals the goal.
C2_DoneIffGoalMet ==
    pc \in Computed =>
        /\ done <=> (total_time - break_time >= workday)
        /\ total_time - break_time = workday => done

\* C2 amended: the done-flag is true exactly when work time (total elapsed
\* minus total break) strictly exceeds the daily goal; when work time equals
\* the daily goal exactly the flag is false.
C2_DoneIffGoalExceeded ==
    pc \in Computed =>
        /\ work_time = total_time - break_time
        /\ done <=> (total_time - break_time > workday)
        /\ total_time - break_time = workday => ~done

C2_Witness ==
    /\ pc \in Computed
    /\ total_time - break_time = workday
    /\ ~done

----------------------------------------------------------------------------
(* C3 *)

\* C3: with no break argument, the total break is 30 minutes when the elapsed
\* time (end-or-now minus the effective start) is below 9h30m and 45 minutes
\* when it is at or above 9h30m, a negative elapsed time included.
C3_DefaultBreakPolicy ==
    (pc \in PastBreaks /\ breaks_in = <<>>) =>
        /\ total_time = EndOrNow - EffectiveStart
        /\ break_time = IF EndOrNow - EffectiveStart < Clock(9, 30, 0)
                        THEN Clock(0, 30, 0)
                        ELSE Clock(0, 45, 0)

C3_Witness ==
    /\ pc \in PastBreaks
    /\ breaks_in = <<>>
    /\ EndOrNow - EffectiveStart = Clock(9, 30, 0)
    /\ break_time = Clock(0, 45, 0)

----------------------------------------------------------------------------
(* C4 *)

\* C4: with one or more break intervals, the total break is the sum of the
\* break durations and the reported longest break is their maximum, for every
\* list and order; with no break argument the reported longest break is the
\* reported total (default) break.
C4_BreakSumAndLongest ==
    /\ (pc \in PastBreaks /\ breaks_in # <<>>) =>
          /\ break_time = SumOfBreaks(breaks_in)
          /\ longest_break_time = LongestOfBreaks(breaks_in)
    /\ \A l \in ReportLine(3) :
          /\ l.total_break = format_duration(break_time)
          /\ breaks_in # <<>> =>
                /\ l.total_break = format_duration(SumOfBreaks(breaks_in))
                /\ l.longest_break = format_duration(LongestOfBreaks(breaks_in))
          /\ breaks_in = <<>> => l.longest_break = l.total_break

C4_Witness ==
    /\ pc = "exit"
    /\ Len(breaks_in) = 2
    /\ BreakOf(breaks_in[1]) > BreakOf(breaks_in[2])
    /\ BreakOf(breaks_in[2]) > 0
    /\ \E l \in ReportLine(3) : l.longest_break = "01:00:00" /\ l.total_break = "01:30:00"

----------------------------------------------------------------------------
(* C5 *)

\* C5: the effective start is never earlier than 06:00: a given start before
\* 06:00 is replaced by 06:00 with a notice, a given start at or after 06:00
\* is used unchanged without a notice; the elapsed time and the report use it.
C5_StartFloor ==
    pc \in PastStart =>
        /\ start >= SixOClock
        /\ given_start = TimeOf(start_s)
        /\ TimeOf(start_s) < SixOClock =>
              start = SixOClock /\ Notices("Provided start time too small") # {}
        /\ TimeOf(start_s) >= SixOClock =>
              start = TimeOf(start_s) /\ Notices("Provided start time too small") = {}
        /\ pc \in PastTotal => total_time = EndOrNow - EffectiveStart
        /\ pc \in Computed => max_dur >= SixOClock + Clock(10, 45, 0) - now
        /\ \A l \in ReportLine(1) : l.start = time(EffectiveStart)

C5_Witness ==
    /\ pc = "exit"
    /\ TimeOf(start_s) < SixOClock
    /\ start = SixOClock
    /\ Notices("Provided start time too small") # {}

----------------------------------------------------------------------------
(* C6 *)

----------------------------------------------------------------------------
(* C7 *)

\* C7: the 9h and 10h clock-out projections are start + 9h (10h) + the larger
\* of 45 minutes and the total break, printed as time of day; each is at
\* least start + threshold + 45 min and at least start + threshold + the
\* break; the maximum remaining duration is the 10h projection minus now.
C7_Projections ==
    pc \in Computed =>
        LET p9 == start + Clock(9, 0, 0) + Larger(Clock(0, 45, 0), break_time)
            p10 == start + Clock(10, 0, 0) + Larger(Clock(0, 45, 0), break_time)
        IN /\ clock_out(start, 9, break_time) = p9
           /\ clock_out(start, 10, break_time) = p10
           /\ clock_out(start, 9, break_time) >= start + Clock(9, 45, 0)
           /\ clock_out(start, 9, break_time) >= start + Clock(9, 0, 0) + break_time
           /\ clock_out(start, 10, break_time) >= start + Clock(10, 45, 0)
           /\ clock_out(start, 10, break_time) >= start + Clock(10, 0, 0) + break_time
           /\ max_dur = p10 - now
           /\ \A l \in ReportLine(1) : l.at_9h = time(p9) /\ l.at_10h = time(p10)

C7_Witness ==
    /\ pc = "exit"
    /\ break_time > Clock(0, 45, 0)
    /\ max_dur = start + Clock(10, 0, 0) + break_time - now
    /\ \E l \in ReportLine(1) : l.at_10h = time(start + Clock(10, 0, 0) + break_time)

----------------------------------------------------------------------------
(* C8 *)

\* C8: the daily goal is the explicit daily goal string as a duration when
\* one is given, the weekly goal being ignored; otherwise it is the weekly
\* goal duration divided by 5, so the default "39:00" gives 7h48m.
C8_DailyGoal ==
    pc \in PastGoal =>
        /\ daily_s # NoArg => workday = DurationOf(daily_s)
        /\ daily_s = NoArg => 5 * workday = DurationOf(weekly_s)
        /\ (daily_s = NoArg /\ weekly_s = <<N(39), N(0)>>) =>
              workday = Clock(7, 48, 0)

C8_Witness ==
    /\ pc = "exit"
    /\ daily_s = NoArg
    /\ weekly_s = <<N(39), N(0)>>
    /\ workday = Clock(7, 48, 0)

----------------------------------------------------------------------------
(* C9 *)

\* the HH:MM:SS rendering of a non-negative number of milliseconds
Rendered(m) ==
    Pad2(m \div Clock(1, 0, 0)) \o ":" \o
    Pad2((m % Clock(1, 0, 0)) \div Clock(0, 1, 0)) \o ":" \o
    Pad2((m % Clock(0, 1, 0)) \div 1000)

FormattedDurations == {work_time, remainder, max_dur, break_time, longest_break_time}

\* C9: format_duration renders the absolute value of a signed duration d as
\* zero-padded HH:MM:SS with hours |d| div 1h, minutes (|d| mod 1h) div 1min
\* and seconds |d| mod 1min, so d and -d render alike and the minutes and
\* seconds fields lie in 0..59; the report carries these renderings.
C9_FormatDuration ==
    pc \in Computed =>
        /\ \A d \in FormattedDurations :
              /\ format_duration(d) = Rendered(Magnitude(d))
              /\ format_duration(d) = format_duration(0 - d)
              /\ format_minutes_field(d) \in 0..59
              /\ format_seconds_field(d) \in 0..59
        /\ \A l \in ReportLine(2) :
              /\ l.already_done = Rendered(Magnitude(work_time))
              /\ l.remainder = Rendered(Magnitude(remainder))
              /\ l.no_longer_than = Rendered(Magnitude(max_dur))
        /\ \A l \in ReportLine(3) :
              l.total_break = Rendered(Magnitude(break_time))

C9_Witness ==
    /\ pc = "exit"
    /\ work_time = 0 - Clock(1, 17, 30)
    /\ \E l \in ReportLine(2) : l.already_done = "01:17:30"

----------------------------------------------------------------------------
(* C10 *)

Swapped(b) == <<b[2], b[1]>>

\* C10: the break-interval calculator is order-independent and non-negative:
\* for the times a and b of every break processed, the duration of "a-b"
\* equals the duration of "b-a", equals |b - a|, and is zero when a = b; the
\* first break adds the same amount to the total whichever way it is written.
C10_BreakOrderIndependent ==
    (pc \in PastTotal /\ breaks_in # <<>>) =>
        /\ \A k \in 1..(idx - 1) :
              LET b == breaks_in[k]
                  a_b == calculate_duration_from_string_ts(b)
                  b_a == calculate_duration_from_string_ts(Swapped(b))
              IN /\ a_b = b_a
                 /\ a_b = Magnitude(TimeOf(b[2]) - TimeOf(b[1]))
                 /\ a_b >= 0
                 /\ b[1] = b[2] => a_b = 0
        /\ (idx = 2 /\ pc # "aborted") =>
              break_time = calculate_duration_from_string_ts(Swapped(breaks_in[1]))

C10_Witness ==
    /\ pc = "compute"
    /\ idx = 2
    /\ TimeOf(breaks_in[1][2]) < TimeOf(breaks_in[1][1])
    /\ break_time = Clock(0, 30, 0)

====
